---- MODULE Spec2Model ----
(***************************************************************************)
(* Model of the todo calendar's date-indexed collection engine             *)
(* (utils/todoUtils.js), its date-key formatting (utils/dateUtils.js),     *)
(* the storage-backed state hook (hooks/useLocalStorage.js), the facade    *)
(* built on them (hooks/useTodos.js), the calendar's month navigation      *)
(* (hooks/useCalendar.js) and its 'add' handler (components/Calendar).     *)
(*                                                                         *)
(* The engine functions are modelled over an explicit JavaScript heap:     *)
(* collection objects, bucket arrays and todo objects live at addresses,   *)
(* so that object spread, array spread, filter, delete and property        *)
(* assignment are the reads and writes the source performs, and aliasing   *)
(* between an argument and a result is something the model can observe.    *)
(***************************************************************************)
EXTENDS Integers, Sequences, FiniteSets, TLC

VARIABLES
  coll,        \* engine: the collection most recently returned (deep value)
  last,        \* engine: record of the most recent engine call
  now,         \* the clock read by new Date(); it stands still in these specifications
  storedValue, \* facade: React state of useLocalStorage as of the last render
  queued,      \* facade: the state update scheduled by setStoredValue and not yet
               \* rendered: <<>> or <<value>>
  blob,        \* facade: localStorage['todos'], parsed
  res,         \* facade: the outcome of the call that has just run, until its
               \* caller has taken it
  nextId,      \* facade: number of ids generated so far
  probe,       \* item: record of the most recent validateTodo / updateTodo call
  currentDate,     \* calendar: useCalendar's currentDate, the month displayed
  selectedDate,    \* calendar: useCalendar's selectedDate, NoDate for null
  nav,             \* calendar: the most recent navigation and the date it left
  operationStatus, \* calendar: Calendar's operationStatus after handleTodoUpdate
  tabs,        \* tabs: for each tab, the storedValue and the scheduled update
               \* of its useLocalStorage instance
  events       \* tabs: for each tab, the storage events not yet dispatched to it

vars == <<coll, last, now, storedValue, queued, blob, res, nextId, probe,
          currentDate, selectedDate, nav, operationStatus, tabs, events>>
engineVars == <<coll, last>>
facadeVars == <<storedValue, queued, blob, res, nextId>>
calendarVars == <<currentDate, selectedDate, nav, operationStatus>>
tabVars == <<tabs, events>>

(***************************************************************************)
(* Bounds                                                                  *)
(***************************************************************************)
NumIds   == 2   \* distinct ids offered to the engine / generated by the facade
NumDays  == 2   \* distinct calendar days
MaxItems == 3   \* items held by a collection
MaxBulk  == 2   \* length of a bulk id list

IdOf(i) == "todo_" \o ToString(i)
Ids == {IdOf(i) : i \in 1..NumIds}

\* A Date value: year, month index (0-based, as getMonth returns), day of month.
Dates == {[y |-> 2024, mo |-> 0, d |-> 4 + i] : i \in 1..NumDays}

\* Text is a sequence of one-character strings.
Trim(s) ==
  LET nonWs == {i \in 1..Len(s) : s[i] # " "}
  IN IF nonWs = {} THEN <<>>
     ELSE LET lo == CHOOSE i \in nonWs : \A j \in nonWs : i <= j
              hi == CHOOSE i \in nonWs : \A j \in nonWs : j <= i
          IN SubSeq(s, lo, hi)

(***************************************************************************)
(* utils/dateUtils.js                                                      *)
(***************************************************************************)
padStart2(n) == IF n < 10 THEN "0" \o ToString(n) ELSE ToString(n)

\* An Invalid Date, e.g. new Date('x'): a Date whose getters return NaN.
IsInvalidDate(date) == "kind" \in DOMAIN date /\ date.kind = "InvalidDate"

\* String(NaN) is "NaN", and padStart(2, '0') leaves its three letters alone.
formatDateKey(date) ==
  IF IsInvalidDate(date) THEN "NaN" \o "-" \o "NaN" \o "-" \o "NaN"
  ELSE ToString(date.y) \o "-" \o padStart2(date.mo + 1) \o "-" \o padStart2(date.d)

Days == {formatDateKey(dt) : dt \in Dates}

(***************************************************************************)
(* The JavaScript heap: three stores, an address is an index into one.     *)
(*   objs  : collection objects, each the ordered list of its own          *)
(*           properties [k |-> date key, v |-> address of the array]       *)
(*   arrs  : arrays of todo addresses                                      *)
(*   todos : todo objects                                                  *)
(***************************************************************************)
EmptyHeap == [objs |-> <<>>, arrs |-> <<>>, todos |-> <<>>]

NewObj(h, props) ==
  [h |-> [h EXCEPT !.objs = Append(h.objs, props)], ref |-> Len(h.objs) + 1]

NewArr(h, elems) ==
  [h |-> [h EXCEPT !.arrs = Append(h.arrs, elems)], ref |-> Len(h.arrs) + 1]

NewTodo(h, t) ==
  [h |-> [h EXCEPT !.todos = Append(h.todos, t)], ref |-> Len(h.todos) + 1]

\* { ...o }: a new object with o's own properties, in o's order.
SpreadObj_alias(h, o) == [h |-> h, ref |-> o]

SpreadObj(h, o) == NewObj(h, h.objs[o])

\* for (const k in o) / Object.keys(o): property order is insertion order.
Keys(h, o) == [i \in 1..Len(h.objs[o]) |-> h.objs[o][i].k]

HasProp(h, o, k) == \E i \in 1..Len(h.objs[o]) : h.objs[o][i].k = k

\* o[k], for a property the object has.
GetProp(h, o, k) ==
  h.objs[o][CHOOSE i \in 1..Len(h.objs[o]) : h.objs[o][i].k = k].v

\* o[k] = a: overwrite in place, or add k as the last property.
SetProp(h, o, k, a) ==
  IF HasProp(h, o, k)
  THEN [h EXCEPT !.objs[o] =
          [i \in 1..Len(h.objs[o]) |->
             IF h.objs[o][i].k = k THEN [k |-> k, v |-> a] ELSE h.objs[o][i]]]
  ELSE [h EXCEPT !.objs[o] = Append(h.objs[o], [k |-> k, v |-> a])]

\* delete o[k]
DeleteProp_keep(h, o, k) == h

DeleteProp(h, o, k) ==
  [h EXCEPT !.objs[o] = SelectSeq(h.objs[o], LAMBDA p : p.k # k)]

\* arr.findIndex(t => t.id === id); 0 stands for -1.
FindIndex(h, a, id) ==
  LET hits == {i \in 1..Len(h.arrs[a]) : h.todos[h.arrs[a][i]].id = id}
  IN IF hits = {} THEN 0 ELSE CHOOSE i \in hits : \A j \in hits : i <= j

\* arr.filter(t => t.id !== id): a new array.
FilterOutId(h, a, id) ==
  NewArr(h, SelectSeq(h.arrs[a], LAMBDA r : h.todos[r].id # id))

\* The value reachable from a collection object: the ordered list of
\* [k |-> date key, v |-> sequence of todo records].
Deep(h, o) ==
  [i \in 1..Len(h.objs[o]) |->
     [k |-> h.objs[o][i].k,
      v |-> [j \in 1..Len(h.arrs[h.objs[o][i].v]) |->
               h.todos[h.arrs[h.objs[o][i].v][j]]]]]

\* A heap holding the collection value c, each bucket its own array and
\* each todo its own object; the collection object is objs[1].
RECURSIVE LoadBuckets(_, _, _)
LoadBuckets(h, c, i) ==
  IF i > Len(c) THEN [h |-> h, props |-> <<>>]
  ELSE LET base  == Len(h.todos)
           h1    == [h EXCEPT !.todos = h.todos \o c[i].v]
           arr   == NewArr(h1, [j \in 1..Len(c[i].v) |-> base + j])
           rest  == LoadBuckets(arr.h, c, i + 1)
       IN [h |-> rest.h, props |-> <<[k |-> c[i].k, v |-> arr.ref]>> \o rest.props]

Load(c) ==
  LET b == LoadBuckets(EmptyHeap, c, 1)
  IN NewObj(b.h, b.props)

(***************************************************************************)
(* Item model (utils/todoUtils.js)                                         *)
(***************************************************************************)
\* Outcome of a call that may throw: the heap after it, the reference it
\* returned (0 when it threw) and the kind of the error thrown ("" if none).
Return(h, ref) == [h |-> h, ref |-> ref, err |-> ""]
Throw(h, kind) == [h |-> h, ref |-> 0, err |-> kind]

FourDigits == {ToString(y) : y \in 2023..2025}
TwoDigits  == {padStart2(n) : n \in 0..99}

\* The strings /^\d{4}-\d{2}-\d{2}$/ accepts, for the years the model uses.
DateKeyPattern ==
  {y \o "-" \o m \o "-" \o d : y \in FourDigits, m \in TwoDigits, d \in TwoDigits}

MatchesDateKeyPattern(s) == s \in DateKeyPattern

\* A JavaScript value as validateTodo sees it: what typeof gives and the
\* value; the value of a number is not looked at and is left out.
Boxed(type, v) == [type |-> type, v |-> v]

\* A todo of the model as the object validateTodo inspects.
BoxedTodo(todo) ==
  [f \in DOMAIN todo |->
     Boxed(IF f = "completed" THEN "boolean" ELSE "string", todo[f])]

requiredFields == <<"id", "title", "completed", "dateKey", "createdAt", "updatedAt">>

\* validateTodo(todo) on any object: the kind of the error thrown ("" when
\* it returns true) and the fields its message names.
validateTodoObject(todo) ==
  LET missingFields == SelectSeq(requiredFields, LAMBDA field : field \notin DOMAIN todo)
  IN IF Len(missingFields) > 0 THEN [err |-> "Malformed", fields |-> missingFields]
     ELSE IF todo.id.type # "string" \/ Len(todo.id.v) = 0
     THEN [err |-> "Malformed", fields |-> <<"id">>]
     ELSE IF todo.title.type # "string" \/ Len(Trim(todo.title.v)) = 0
     THEN [err |-> "Malformed", fields |-> <<"title">>]
     ELSE IF todo.completed.type # "boolean"
     THEN [err |-> "Malformed", fields |-> <<"completed">>]
     ELSE IF todo.dateKey.type # "string" \/ ~MatchesDateKeyPattern(todo.dateKey.v)
     THEN [err |-> "Malformed", fields |-> <<"dateKey">>]
     ELSE IF "description" \notin DOMAIN todo \/ todo.description.type # "string"
     THEN [err |-> "Malformed", fields |-> <<"description">>]
     ELSE [err |-> "", fields |-> <<>>]

\* validateTodo: "" when the todo is valid, else the kind of error thrown.
validateTodo(todo) == validateTodoObject(BoxedTodo(todo)).err

\* A todo record that stands for "no todo".
NoTodoRec == [id |-> "", title |-> <<>>, description |-> <<>>, completed |-> FALSE,
              dateKey |-> "", createdAt |-> 0, updatedAt |-> 0]

\* A patch: has is the set of fields that are not undefined.
NoPatch == [has |-> {}, title |-> <<>>, description |-> <<>>,
            completed |-> FALSE, date |-> [kind |-> "Date", y |-> 2024, mo |-> 0, d |-> 5]]

\* The fields of the copy that updateTodo has assigned once it reached the
\* fields in done, in the order title, description, completed, date.
Assigned_clobber(rec, updates, done) ==
  [rec EXCEPT
     !.title = Trim(updates.title),
     !.description = Trim(updates.description),
     !.completed = updates.completed,
     !.dateKey = IF "date" \in updates.has \cap done THEN formatDateKey(updates.date) ELSE @]

Assigned(rec, updates, done) ==
  [rec EXCEPT
     !.title = IF "title" \in updates.has \cap done THEN Trim(updates.title) ELSE @,
     !.description = IF "description" \in updates.has \cap done
                     THEN Trim(updates.description) ELSE @,
     !.completed = IF "completed" \in updates.has \cap done THEN updates.completed ELSE @,
     !.dateKey = IF "date" \in updates.has \cap done THEN formatDateKey(updates.date) ELSE @]

\* updateTodo(existingTodo, updates), reading the clock as t.
updateTodo(h, existingTodo, updates, t) ==
  IF h.todos[existingTodo].id = "" THEN Throw(h, "InvalidState")
  ELSE IF "title" \in updates.has /\ Len(Trim(updates.title)) = 0
  THEN Throw(NewTodo(h, h.todos[existingTodo]).h, "InvalidArgument")
  ELSE IF "date" \in updates.has /\ updates.date.kind = "NotDate"
  THEN Throw(NewTodo(h, Assigned(h.todos[existingTodo], updates,
                                 {"title", "description", "completed"})).h,
             "InvalidArgument")
  ELSE
    LET updatedTodo ==
          NewTodo(h, [Assigned(h.todos[existingTodo], updates,
                               {"title", "description", "completed", "date"})
                        EXCEPT !.updatedAt = t])
    IN Return(updatedTodo.h, updatedTodo.ref)

\* toggleTodoComplete(todo)
toggleTodoComplete(h, todo, t) ==
  updateTodo(h, todo, [NoPatch EXCEPT !.has = {"completed"},
                                      !.completed = ~h.todos[todo].completed], t)

(***************************************************************************)
(* Collection engine (utils/todoUtils.js)                                  *)
(***************************************************************************)
Min(S) == CHOOSE i \in S : \A j \in S : i <= j

\* o[dateKey] = [...o[dateKey], todo]
AppendToBucket_front(h, o, dateKey, todo) ==
  LET cat == NewArr(h, <<todo>> \o h.arrs[GetProp(h, o, dateKey)])
  IN SetProp(cat.h, o, dateKey, cat.ref)

AppendToBucket(h, o, dateKey, todo) ==
  LET cat == NewArr(h, Append(h.arrs[GetProp(h, o, dateKey)], todo))
  IN SetProp(cat.h, o, dateKey, cat.ref)

\* if (!o[dateKey]) o[dateKey] = []
EnsureBucket(h, o, dateKey) ==
  IF HasProp(h, o, dateKey) THEN h
  ELSE LET fresh == NewArr(h, <<>>) IN SetProp(fresh.h, o, dateKey, fresh.ref)

\* addTodoToCollection(todosCollection, todo)
addTodoToCollection_lookupFirst(h, todosCollection, todo) ==
  LET updatedCollection == SpreadObj(h, todosCollection)
      dateKey == h.todos[todo].dateKey
      h1 == EnsureBucket(updatedCollection.h, updatedCollection.ref, dateKey)
  IN IF FindIndex(h1, GetProp(h1, updatedCollection.ref, dateKey), h1.todos[todo].id) # 0
     THEN Throw(h1, "DuplicateId")
     ELSE IF validateTodo(h.todos[todo]) # "" THEN Throw(h1, validateTodo(h.todos[todo]))
     ELSE Return(AppendToBucket(h1, updatedCollection.ref, dateKey, todo),
                 updatedCollection.ref)

addTodoToCollection(h, todosCollection, todo) ==
  IF validateTodo(h.todos[todo]) # "" THEN Throw(h, validateTodo(h.todos[todo]))
  ELSE
    LET updatedCollection == SpreadObj(h, todosCollection)
        dateKey == h.todos[todo].dateKey
        h1 == EnsureBucket(updatedCollection.h, updatedCollection.ref, dateKey)
    IN IF FindIndex(h1, GetProp(h1, updatedCollection.ref, dateKey), h1.todos[todo].id) # 0
       THEN Throw(h1, "DuplicateId")
       ELSE Return(AppendToBucket(h1, updatedCollection.ref, dateKey, todo),
                   updatedCollection.ref)

\* The first date key, in property order, whose bucket holds todoId; 0 if none.
FirstBucketWith(h, o, todoId) ==
  LET keys == Keys(h, o)
      hits == {i \in 1..Len(keys) : FindIndex(h, GetProp(h, o, keys[i]), todoId) # 0}
  IN IF hits = {} THEN 0 ELSE Min(hits)

\* o[dateKey] = o[dateKey].filter(t => t.id !== todoId), and delete
\* o[dateKey] when the filtered array is empty.
DropFromBucket(h, o, dateKey, todoId) ==
  LET flt == FilterOutId(h, GetProp(h, o, dateKey), todoId)
  IN IF Len(flt.h.arrs[flt.ref]) = 0
     THEN DeleteProp(SetProp(flt.h, o, dateKey, flt.ref), o, dateKey)
     ELSE SetProp(flt.h, o, dateKey, flt.ref)

\* The todo of id todoId in the bucket o[dateKey].
TodoIn(h, o, dateKey, todoId) ==
  h.arrs[GetProp(h, o, dateKey)][FindIndex(h, GetProp(h, o, dateKey), todoId)]

\* updateTodoInCollection(todosCollection, todoId, updates), clock read as t.
updateTodoInCollection(h, todosCollection, todoId, updates, t) ==
  LET updatedCollection == SpreadObj(h, todosCollection)
      found == FirstBucketWith(updatedCollection.h, updatedCollection.ref, todoId)
  IN IF found = 0 THEN Throw(updatedCollection.h, "NotFound")
     ELSE
       LET dateKey == Keys(updatedCollection.h, updatedCollection.ref)[found]
           updatedTodo ==
             updateTodo(updatedCollection.h,
                        TodoIn(updatedCollection.h, updatedCollection.ref, dateKey, todoId),
                        updates, t)
       IN IF updatedTodo.err # "" THEN updatedTodo
          ELSE Return(
                 AppendToBucket(
                   EnsureBucket(
                     DropFromBucket(updatedTodo.h, updatedCollection.ref, dateKey, todoId),
                     updatedCollection.ref, updatedTodo.h.todos[updatedTodo.ref].dateKey),
                   updatedCollection.ref, updatedTodo.h.todos[updatedTodo.ref].dateKey,
                   updatedTodo.ref),
                 updatedCollection.ref)

\* removeTodoFromCollection(todosCollection, todoId)
removeTodoFromCollection_silent(h, todosCollection, todoId) ==
  LET updatedCollection == SpreadObj(h, todosCollection)
      found == FirstBucketWith(updatedCollection.h, updatedCollection.ref, todoId)
  IN IF found = 0 THEN Return(updatedCollection.h, updatedCollection.ref)
     ELSE Return(DropFromBucket(updatedCollection.h, updatedCollection.ref,
                                Keys(updatedCollection.h, updatedCollection.ref)[found],
                                todoId),
                 updatedCollection.ref)

removeTodoFromCollection(h, todosCollection, todoId) ==
  LET updatedCollection == SpreadObj(h, todosCollection)
      found == FirstBucketWith(updatedCollection.h, updatedCollection.ref, todoId)
  IN IF found = 0 THEN Throw(updatedCollection.h, "NotFound")
     ELSE Return(DropFromBucket(updatedCollection.h, updatedCollection.ref,
                                Keys(updatedCollection.h, updatedCollection.ref)[found],
                                todoId),
                 updatedCollection.ref)

\* filterTodosByStatus(todosCollection, completed): buckets from key i on.
RECURSIVE FilterFrom_keepEmpty(_, _, _, _, _)
FilterFrom_keepEmpty(h, todosCollection, filteredCollection, completed, i) ==
  IF i > Len(h.objs[todosCollection]) THEN h
  ELSE LET filteredTodos ==
             NewArr(h, SelectSeq(h.arrs[h.objs[todosCollection][i].v],
                                 LAMBDA r : h.todos[r].completed = completed))
       IN FilterFrom_keepEmpty(
            SetProp(filteredTodos.h, filteredCollection, h.objs[todosCollection][i].k,
                    filteredTodos.ref),
            todosCollection, filteredCollection, completed, i + 1)

RECURSIVE FilterFrom(_, _, _, _, _)
FilterFrom(h, todosCollection, filteredCollection, completed, i) ==
  IF i > Len(h.objs[todosCollection]) THEN h
  ELSE LET dateKey == h.objs[todosCollection][i].k
           src == h.arrs[h.objs[todosCollection][i].v]
           filteredTodos == NewArr(h, SelectSeq(src, LAMBDA r : h.todos[r].completed = completed))
           h1 == IF Len(filteredTodos.h.arrs[filteredTodos.ref]) > 0
                 THEN SetProp(filteredTodos.h, filteredCollection, dateKey, filteredTodos.ref)
                 ELSE filteredTodos.h
       IN FilterFrom(h1, todosCollection, filteredCollection, completed, i + 1)

filterTodosByStatus(h, todosCollection, completed) ==
  LET filteredCollection == NewObj(h, <<>>)
  IN Return(FilterFrom(filteredCollection.h, todosCollection, filteredCollection.ref, completed, 1),
            filteredCollection.ref)

\* a.title.localeCompare(b.title) on the letters the model uses.
CharRank(c) == CASE c = " " -> 0 [] c = "A" -> 1 [] c = "B" -> 2 [] OTHER -> 3

RECURSIVE localeCompare(_, _)
localeCompare(a, b) ==
  IF Len(a) = 0 /\ Len(b) = 0 THEN 0
  ELSE IF Len(a) = 0 THEN -1
  ELSE IF Len(b) = 0 THEN 1
  ELSE IF CharRank(a[1]) < CharRank(b[1]) THEN -1
  ELSE IF CharRank(a[1]) > CharRank(b[1]) THEN 1
  ELSE localeCompare(Tail(a), Tail(b))

\* The comparator handed to Array.prototype.sort.
Compare_byCreated(a, b, sortBy, order) ==
  IF order = "desc" THEN b.createdAt - a.createdAt ELSE a.createdAt - b.createdAt

Compare(a, b, sortBy, order) ==
  LET comparison ==
        CASE sortBy = "title" -> localeCompare(a.title, b.title)
          [] sortBy = "completed" ->
               IF a.completed = b.completed THEN 0 ELSE IF a.completed THEN 1 ELSE -1
          [] OTHER -> a.createdAt - b.createdAt
  IN IF order = "desc" THEN 0 - comparison ELSE comparison

\* Array.prototype.sort is stable: x goes after every element not greater than it.
RECURSIVE InsertStable(_, _, _, _, _)
InsertStable(h, sorted, x, sortBy, order) ==
  IF Len(sorted) = 0 THEN <<x>>
  ELSE IF Compare(h.todos[sorted[Len(sorted)]], h.todos[x], sortBy, order) <= 0
       THEN Append(sorted, x)
       ELSE Append(InsertStable(h, SubSeq(sorted, 1, Len(sorted) - 1), x, sortBy, order),
                   sorted[Len(sorted)])

RECURSIVE StableSort(_, _, _, _)
StableSort(h, s, sortBy, order) ==
  IF Len(s) = 0 THEN <<>>
  ELSE InsertStable(h, StableSort(h, SubSeq(s, 1, Len(s) - 1), sortBy, order),
                    s[Len(s)], sortBy, order)

\* [...arr]: a new array with arr's elements.
SpreadArr_alias(h, a) == [h |-> h, ref |-> a]

SpreadArr(h, a) == NewArr(h, h.arrs[a])

\* arr.sort(compare): sorts the array at address a in place.
SortInPlace(h, a, sortBy, order) ==
  [h EXCEPT !.arrs[a] = StableSort(h, h.arrs[a], sortBy, order)]

\* sortTodosInCollection(todosCollection, sortBy, order): buckets from key i on.
RECURSIVE SortFrom(_, _, _, _, _, _)
SortFrom(h, todosCollection, sortedCollection, sortBy, order, i) ==
  IF i > Len(h.objs[todosCollection]) THEN h
  ELSE LET dateKey == h.objs[todosCollection][i].k
           todos == SpreadArr(h, h.objs[todosCollection][i].v)
           h1 == SortInPlace(todos.h, todos.ref, sortBy, order)
           h2 == SetProp(h1, sortedCollection, dateKey, todos.ref)
       IN SortFrom(h2, todosCollection, sortedCollection, sortBy, order, i + 1)

sortTodosInCollection(h, todosCollection, sortBy, order) ==
  LET sortedCollection == NewObj(h, <<>>)
  IN Return(SortFrom(sortedCollection.h, todosCollection, sortedCollection.ref, sortBy, order, 1),
            sortedCollection.ref)

\* getAllTodos(todosCollection), as a value.
RECURSIVE getAllTodos(_)
getAllTodos(c) == IF Len(c) = 0 THEN <<>> ELSE c[1].v \o getAllTodos(Tail(c))

\* getTodosForDate(todosCollection, dateKey), as a value.
getTodosForDate(c, dateKey) ==
  IF \E i \in 1..Len(c) : c[i].k = dateKey
  THEN c[CHOOSE i \in 1..Len(c) : c[i].k = dateKey].v
  ELSE <<>>

\* The queries as they act on the heap: each returns the heap after the
\* call and the address (or the value) it returned.

\* getAllTodos(todosCollection): the addresses pushed, buckets from key i on.
RECURSIVE AllRefsFrom(_, _, _)
AllRefsFrom(h, todosCollection, i) ==
  IF i > Len(h.objs[todosCollection]) THEN <<>>
  ELSE h.arrs[h.objs[todosCollection][i].v] \o AllRefsFrom(h, todosCollection, i + 1)

getAllTodosIn(h, todosCollection) == NewArr(h, AllRefsFrom(h, todosCollection, 1))

\* getTodosForDate(todosCollection, dateKey): the bucket itself, or a new [].
getTodosForDateIn(h, todosCollection, dateKey) ==
  IF HasProp(h, todosCollection, dateKey)
  THEN [h |-> h, ref |-> GetProp(h, todosCollection, dateKey)]
  ELSE NewArr(h, <<>>)

\* arr.filter(todo => todo.completed === completed): a new array.
FilterCompleted_all(h, a, completed) == NewArr(h, h.arrs[a])

FilterCompleted(h, a, completed) ==
  NewArr(h, SelectSeq(h.arrs[a], LAMBDA r : h.todos[r].completed = completed))

\* A number that need not be whole: num / den.
Ratio(num, den) == [num |-> num, den |-> den]

\* getTodoStats(todosCollection)
getTodoStatsIn(h, todosCollection) ==
  LET allTodos == getAllTodosIn(h, todosCollection)
      completed == FilterCompleted(allTodos.h, allTodos.ref, TRUE)
      pending == FilterCompleted(completed.h, allTodos.ref, FALSE)
      total == Len(pending.h.arrs[allTodos.ref])
  IN [h |-> pending.h,
      stats |-> [total |-> total,
                 completed |-> Len(pending.h.arrs[completed.ref]),
                 pending |-> Len(pending.h.arrs[pending.ref]),
                 completionRate |->
                   IF total > 0
                   THEN Ratio(Len(pending.h.arrs[completed.ref]) * 100, total)
                   ELSE Ratio(0, 1)]]

\* String.prototype.toLowerCase on the letters the model uses.
toLowerCase_asIs(s) == s

toLowerCase(s) ==
  [i \in 1..Len(s) |-> CASE s[i] = "A" -> "a" [] s[i] = "B" -> "b" [] OTHER -> s[i]]

\* String.prototype.includes
Includes(s, term) ==
  \E i \in 1..(Len(s) - Len(term) + 1) : SubSeq(s, i, i + Len(term) - 1) = term

\* results.push({ ...todo, dateKey }) for the matching todos of one bucket.
RECURSIVE PushMatches(_, _, _, _, _)
PushMatches(h, matchingTodos, dateKey, results, j) ==
  IF j > Len(matchingTodos) THEN [h |-> h, results |-> results]
  ELSE LET cp == NewTodo(h, [h.todos[matchingTodos[j]] EXCEPT !.dateKey = dateKey])
       IN PushMatches(cp.h, matchingTodos, dateKey, Append(results, cp.ref), j + 1)

\* The loop of searchTodos, buckets from key i on.
RECURSIVE SearchFrom(_, _, _, _, _)
SearchFrom(h, todosCollection, term, results, i) ==
  IF i > Len(h.objs[todosCollection]) THEN [h |-> h, results |-> results]
  ELSE LET matchingTodos ==
             NewArr(h, SelectSeq(h.arrs[h.objs[todosCollection][i].v],
                                 LAMBDA r : \/ Includes(toLowerCase(h.todos[r].title), term)
                                            \/ Includes(toLowerCase(h.todos[r].description), term)))
           pushed == PushMatches(matchingTodos.h, matchingTodos.h.arrs[matchingTodos.ref],
                                 h.objs[todosCollection][i].k, results, 1)
       IN SearchFrom(pushed.h, todosCollection, term, pushed.results, i + 1)

\* searchTodos(todosCollection, searchTerm)
\* searchTerm is a boxed value: null, undefined and numbers are not strings,
\* and the empty string is falsy.
searchTodos(h, todosCollection, searchTerm) ==
  IF searchTerm.type # "string" \/ Len(searchTerm.v) = 0 THEN NewArr(h, <<>>)
  ELSE LET found == SearchFrom(h, todosCollection, Trim(toLowerCase(searchTerm.v)), <<>>, 1)
       IN NewArr(found.h, found.results)

(***************************************************************************)
(* Engine specification: the engine functions called one after another,    *)
(* each on the collection the previous successful call returned.           *)
(***************************************************************************)
Titles == {<<"A">>, <<" ">>}

Patches ==
  {[NoPatch EXCEPT !.has = {"completed"}, !.completed = b] : b \in BOOLEAN}
  \cup {[NoPatch EXCEPT !.has = {"title"}, !.title = <<" ">>]}
  \cup {[NoPatch EXCEPT !.has = {"date"}, !.date = [kind |-> "Date", y |-> dt.y, mo |-> dt.mo, d |-> dt.d]] :
          dt \in Dates}
  \cup {[NoPatch EXCEPT !.has = {"date"}, !.date.kind = kind] : kind \in {"NotDate", "InvalidDate"}}
  \cup {NoPatch}

NoArgs == [id |-> "", todo |-> NoTodoRec, patch |-> NoPatch, completed |-> FALSE,
           sortBy |-> "", order |-> ""]

NoCall == [op |-> "init", args |-> NoArgs, err |-> "", inAfter |-> <<>>, out |-> <<>>]

\* What an engine call leaves behind: the collection it returned (the old
\* one when it threw, and after a query) and what its argument collection
\* reads as afterwards.
Called(op, args, ld, r) ==
  /\ coll' = IF r.err = "" /\ op \in {"insert", "update", "remove"} THEN Deep(r.h, r.ref) ELSE coll
  /\ last' = [op |-> op, args |-> args, err |-> r.err,
              inAfter |-> Deep(r.h, ld.ref),
              out |-> IF r.err = "" THEN Deep(r.h, r.ref) ELSE <<>>]

EngineInit ==
  /\ coll = <<>>
  /\ last = NoCall
  /\ now = 0

Insert ==
  /\ Len(getAllTodos(coll)) < MaxItems
  /\ \E id \in Ids, dt \in Dates, title \in Titles :
       LET todo == [id |-> id, title |-> title, description |-> <<>>,
                    completed |-> FALSE, dateKey |-> formatDateKey(dt),
                    createdAt |-> now, updatedAt |-> now]
           ld == Load(coll)
           td == NewTodo(ld.h, todo)
       IN Called("insert", [NoArgs EXCEPT !.id = id, !.todo = todo], ld,
                 addTodoToCollection(td.h, ld.ref, td.ref))
  /\ UNCHANGED <<now, facadeVars, probe, calendarVars, tabVars>>

ApplyUpdate ==
  /\ \E id \in Ids, patch \in Patches :
       LET ld == Load(coll)
       IN Called("update", [NoArgs EXCEPT !.id = id, !.patch = patch], ld, updateTodoInCollection(ld.h, ld.ref, id, patch, now))
  /\ UNCHANGED <<now, facadeVars, probe, calendarVars, tabVars>>

Remove ==
  /\ \E id \in Ids :
       LET ld == Load(coll)
       IN Called("remove", [NoArgs EXCEPT !.id = id], ld, removeTodoFromCollection(ld.h, ld.ref, id))
  /\ UNCHANGED <<now, facadeVars, probe, calendarVars, tabVars>>

FilterByStatus ==
  /\ \E completed \in BOOLEAN :
       LET ld == Load(coll)
       IN Called("filter", [NoArgs EXCEPT !.completed = completed], ld,
                 filterTodosByStatus(ld.h, ld.ref, completed))
  /\ UNCHANGED <<now, facadeVars, probe, calendarVars, tabVars>>

Sort ==
  /\ \E sortBy \in {"created", "title", "completed"}, order \in {"asc", "desc"} :
       LET ld == Load(coll)
       IN Called("sort", [NoArgs EXCEPT !.sortBy = sortBy, !.order = order], ld, sortTodosInCollection(ld.h, ld.ref, sortBy, order))
  /\ UNCHANGED <<now, facadeVars, probe, calendarVars, tabVars>>

\* getTodoStats on the collection; last.out is the statistics returned.
Stats ==
  /\ LET ld == Load(coll)
         r == getTodoStatsIn(ld.h, ld.ref)
     IN /\ last' = [op |-> "stats", args |-> NoArgs, err |-> "",
                    inAfter |-> Deep(r.h, ld.ref), out |-> r.stats]
        /\ coll' = coll
  /\ UNCHANGED <<now, facadeVars, probe, calendarVars, tabVars>>

(***************************************************************************)
(* hooks/useLocalStorage.js                                                *)
(***************************************************************************)
\* JSON.stringify(collection): the text as a list of tokens, a key token
\* for each property followed by one token for each todo of its array.
RECURSIVE JSONStringify(_)
JSONStringify(c) ==
  IF Len(c) = 0 THEN <<>>
  ELSE <<[tok |-> "key", key |-> c[1].k, todo |-> NoTodoRec]>>
       \o [j \in 1..Len(c[1].v) |-> [tok |-> "todo", key |-> "", todo |-> c[1].v[j]]]
       \o JSONStringify(Tail(c))

\* JSON.parse(text): a todo token goes to the array of the last key read.
RECURSIVE JSONParse(_)
JSONParse(text) ==
  IF Len(text) = 0 THEN <<>>
  ELSE LET front == JSONParse(SubSeq(text, 1, Len(text) - 1))
           t == text[Len(text)]
       IN IF t.tok = "key" THEN Append(front, [k |-> t.key, v |-> <<>>])
          ELSE [front EXCEPT ![Len(front)].v = Append(@, t.todo)]

NoItem == [present |-> FALSE, text |-> <<>>]

\* JSON.parse throws a SyntaxError on a text that is not JSON: here a
\* text holding a token that is neither a key nor a todo, or a todo before
\* the first key.
IsJSON(text) ==
  /\ \A i \in 1..Len(text) : text[i].tok \in {"key", "todo"}
  /\ Len(text) > 0 => text[1].tok = "key"

\* The initializer handed to useState: the initial React state read from
\* localStorage, or the StorageError handleStorageOperation throws.
ReadStoredValue(item, initialValue) ==
  IF ~item.present THEN [err |-> "", value |-> initialValue]
  ELSE IF ~IsJSON(item.text) THEN [err |-> "StorageError", value |-> initialValue]
  ELSE [err |-> "", value |-> JSONParse(item.text)]

\* useState(() => ...): the initial React state read from localStorage.
InitialStoredValue_ignored(item, initialValue) == initialValue

InitialStoredValue(item, initialValue) ==
  IF item.present THEN JSONParse(item.text) ELSE initialValue

\* setValue(value): what the call leaves in localStorage and in the
\* scheduled state update, the status it sets and what it returns.
\* setItemThrows is whether window.localStorage.setItem throws on this call.
\* setStoredValue is given a plain value, so the update it schedules
\* replaces one that has not been rendered yet.
setValue_eager(value, setItemThrows) ==
  [blob   |-> IF setItemThrows THEN blob ELSE [present |-> TRUE, text |-> JSONStringify(value)],
   queued |-> <<value>>,
   status |-> IF setItemThrows THEN "error" ELSE "saved",
   ret    |-> ~setItemThrows]

setValue(value, setItemThrows) ==
  IF setItemThrows
  THEN [blob |-> blob, queued |-> queued, status |-> "error", ret |-> FALSE]
  ELSE [blob   |-> [present |-> TRUE, text |-> JSONStringify(value)],
        queued |-> <<value>>,
        status |-> "saved",
        ret    |-> TRUE]

(***************************************************************************)
(* hooks/useTodos.js                                                       *)
(***************************************************************************)
\* generateTodoId(): the n-th id generated; ids are taken to be distinct.
generateTodoId(n) == IdOf(n)

\* createTodo(title, description, date), id and clock supplied.
\* title is a boxed value: what typeof gives for it, and its text.
createTodo(h, title, description, date, id, t) ==
  IF title.type # "string" \/ Len(Trim(title.v)) = 0 THEN Throw(h, "InvalidArgument")
  ELSE LET nt == NewTodo(h, [id |-> id, title |-> Trim(title.v), description |-> Trim(description),
                             completed |-> FALSE, dateKey |-> formatDateKey(date),
                             createdAt |-> t, updatedAt |-> t])
       IN Return(nt.h, nt.ref)

\* The value a call computed for setTodos, or the error it threw before.
Outcome(r) == [err |-> r.err, out |-> IF r.err = "" THEN Deep(r.h, r.ref) ELSE <<>>]

addTodo(todos, title, description, date, id, t) ==
  LET ld == Load(todos)
      newTodo == createTodo(ld.h, title, description, date, id, t)
  IN IF newTodo.err # "" THEN Outcome(newTodo)
     ELSE Outcome(addTodoToCollection(newTodo.h, ld.ref, newTodo.ref))

updateTodoById(todos, todoId, updates, t) ==
  LET ld == Load(todos)
  IN Outcome(updateTodoInCollection(ld.h, ld.ref, todoId, updates, t))

deleteTodo_kept(todos, todoId) == [err |-> "", out |-> todos]

deleteTodo(todos, todoId) ==
  LET ld == Load(todos)
  IN Outcome(removeTodoFromCollection(ld.h, ld.ref, todoId))

toggleTodoCompleteById(todos, todoId, t) ==
  LET ld == Load(todos)
      allCurrentTodos == getAllTodos(Deep(ld.h, ld.ref))
      hits == {i \in 1..Len(allCurrentTodos) : allCurrentTodos[i].id = todoId}
      cur == NewTodo(ld.h, allCurrentTodos[Min(hits)])
      toggledTodo == toggleTodoComplete(cur.h, cur.ref, t)
  IN IF hits = {} THEN [err |-> "NotFound", out |-> <<>>]
     ELSE IF toggledTodo.err # "" THEN Outcome(toggledTodo)
     ELSE Outcome(updateTodoInCollection(toggledTodo.h, ld.ref, todoId,
                    [NoPatch EXCEPT !.has = {"completed"},
                                    !.completed = toggledTodo.h.todos[toggledTodo.ref].completed], t))

clearTodosForDate(todos, dateKey) ==
  LET ld == Load(todos)
      updatedTodos == SpreadObj(ld.h, ld.ref)
  IN Outcome(Return(DeleteProp(updatedTodos.h, updatedTodos.ref, dateKey), updatedTodos.ref))

\* The loop of bulkUpdateTodos from the i-th id on.
RECURSIVE BulkUpdateFrom_partial(_, _, _, _, _, _)
BulkUpdateFrom_partial(h, updatedTodos, todoIds, updates, t, i) ==
  IF i > Len(todoIds) THEN Return(h, updatedTodos)
  ELSE LET r == updateTodoInCollection(h, updatedTodos, todoIds[i], updates, t)
       IN IF r.err # "" THEN Return(h, updatedTodos)
          ELSE BulkUpdateFrom_partial(r.h, r.ref, todoIds, updates, t, i + 1)

RECURSIVE BulkUpdateFrom(_, _, _, _, _, _)
BulkUpdateFrom(h, updatedTodos, todoIds, updates, t, i) ==
  IF i > Len(todoIds) THEN Return(h, updatedTodos)
  ELSE LET r == updateTodoInCollection(h, updatedTodos, todoIds[i], updates, t)
       IN IF r.err # "" THEN r
          ELSE BulkUpdateFrom(r.h, r.ref, todoIds, updates, t, i + 1)

bulkUpdateTodos(todos, todoIds, updates, t) ==
  LET ld == Load(todos)
      updatedTodos == SpreadObj(ld.h, ld.ref)
  IN Outcome(BulkUpdateFrom(updatedTodos.h, updatedTodos.ref, todoIds, updates, t, 1))

\* The loop of bulkDeleteTodos from the i-th id on.
RECURSIVE BulkDeleteFrom(_, _, _, _)
BulkDeleteFrom(h, updatedTodos, todoIds, i) ==
  IF i > Len(todoIds) THEN Return(h, updatedTodos)
  ELSE LET r == removeTodoFromCollection(h, updatedTodos, todoIds[i])
       IN IF r.err # "" THEN r
          ELSE BulkDeleteFrom(r.h, r.ref, todoIds, i + 1)

bulkDeleteTodos(todos, todoIds) ==
  LET ld == Load(todos)
      updatedTodos == SpreadObj(ld.h, ld.ref)
  IN Outcome(BulkDeleteFrom(updatedTodos.h, updatedTodos.ref, todoIds, 1))

\* dateKey >= startKey && dateKey <= endKey: strings of the form
\* YYYY-MM-DD compare as the dates they stand for.
DateOfKey(dateKey) == CHOOSE dt \in Dates : formatDateKey(dt) = dateKey

KeyLeq(a, b) ==
  LET x == DateOfKey(a)
      y == DateOfKey(b)
  IN \/ x.y < y.y
     \/ x.y = y.y /\ x.mo < y.mo
     \/ x.y = y.y /\ x.mo = y.mo /\ x.d <= y.d

\* The loop of getTodosForDateRange, buckets from key i on.
RECURSIVE RangeRefsFrom(_, _, _, _, _)
RangeRefsFrom(h, todos, startKey, endKey, i) ==
  IF i > Len(h.objs[todos]) THEN <<>>
  ELSE (IF KeyLeq(startKey, h.objs[todos][i].k) /\ KeyLeq(h.objs[todos][i].k, endKey)
        THEN h.arrs[h.objs[todos][i].v] ELSE <<>>)
       \o RangeRefsFrom(h, todos, startKey, endKey, i + 1)

getTodosForDateRange(h, todos, startDate, endDate) ==
  NewArr(h, RangeRefsFrom(h, todos, formatDateKey(startDate), formatDateKey(endDate), 1))

\* The read-only methods of the hook and their arguments.
NoQuery == [fn |-> "", date |-> CHOOSE dt \in Dates : TRUE, endDate |-> CHOOSE dt \in Dates : TRUE,
            completed |-> FALSE, term |-> <<>>, sortBy |-> "", order |-> "", id |-> ""]

Queries ==
  {[NoQuery EXCEPT !.fn = fn, !.date = dt] :
     fn \in {"getTodosForSpecificDate", "hasDateTodos", "getTodoCountForDate",
             "getCompletedCountForDate", "getPendingCountForDate"}, dt \in Dates}
  \cup {[NoQuery EXCEPT !.fn = fn] : fn \in {"getAllTodosFlat", "getStats"}}
  \cup {[NoQuery EXCEPT !.fn = "filterByStatus", !.completed = b] : b \in BOOLEAN}
  \cup {[NoQuery EXCEPT !.fn = "searchTodosInCollection", !.term = term] :
          term \in {<<>>, <<"a">>, <<" ">>}}
  \cup {[NoQuery EXCEPT !.fn = "sortTodos", !.sortBy = sortBy, !.order = order] :
          sortBy \in {"created", "title", "completed"}, order \in {"asc", "desc"}}
  \cup {[NoQuery EXCEPT !.fn = "getTodoById", !.id = id] : id \in Ids}
  \cup {[NoQuery EXCEPT !.fn = "getTodosForDateRange", !.date = dt, !.endDate = ed] :
          dt \in Dates, ed \in Dates}

\* The heap after the query q has run on the collection at address todos.
RunQuery(h, todos, q) ==
  CASE q.fn \in {"getTodosForSpecificDate", "hasDateTodos", "getTodoCountForDate"} ->
         getTodosForDateIn(h, todos, formatDateKey(q.date)).h
    [] q.fn \in {"getCompletedCountForDate", "getPendingCountForDate"} ->
         FilterCompleted(getTodosForDateIn(h, todos, formatDateKey(q.date)).h,
                         getTodosForDateIn(h, todos, formatDateKey(q.date)).ref,
                         q.fn = "getCompletedCountForDate").h
    [] q.fn \in {"getAllTodosFlat", "getTodoById"} -> getAllTodosIn(h, todos).h
    [] q.fn = "getStats" -> getTodoStatsIn(h, todos).h
    [] q.fn = "filterByStatus" -> filterTodosByStatus(h, todos, q.completed).h
    [] q.fn = "searchTodosInCollection" -> searchTodos(h, todos, Boxed("string", q.term)).h
    [] q.fn = "sortTodos" -> sortTodosInCollection(h, todos, q.sortBy, q.order).h
    [] OTHER -> getTodosForDateRange(h, todos, q.date, q.endDate).h

(***************************************************************************)
(* Facade specification: one useTodos instance.  A call runs to its end    *)
(* when it is made (its async body has no await); it reads the todos of    *)
(* the last render.  Render applies the scheduled state update.            *)
(***************************************************************************)
NoRes == [call |-> "idle", ids |-> <<>>, valid |-> TRUE, ok |-> TRUE, cause |-> "",
          thrown |-> "", wrote |-> "none"]

\* catch (error) { throw new Error(`Failed to ...: ${error.message}`) }:
\* the message of the error a rejected call hands to its caller, the kind
\* of the error caught standing for its message.
Rethrown(call, message) ==
  (CASE call = "add" -> "Failed to add todo"
     [] call = "update" -> "Failed to update todo"
     [] call = "delete" -> "Failed to delete todo"
     [] call = "toggle" -> "Failed to toggle todo completion"
     [] call = "clearAll" -> "Failed to clear todos"
     [] call = "clearDate" -> "Failed to clear todos for date"
     [] call = "bulkUpdate" -> "Failed to bulk update todos"
     [] OTHER -> "Failed to bulk delete todos") \o ": " \o message

\* updateTodo accepts the patch: its title, if any, is not blank and its
\* date, if any, is a Date.
PatchValid(updates) ==
  /\ "title" \in updates.has => Len(Trim(updates.title)) > 0
  /\ "date" \in updates.has => updates.date.kind # "NotDate"

BulkLists == UNION {[1..n -> Ids \cup {"missing"}] : n \in 1..MaxBulk}

\* Some id of the list is the id of no todo of the collection.
Absent(c, todoIds) ==
  \E i \in 1..Len(todoIds) : \A j \in 1..Len(getAllTodos(c)) : getAllTodos(c)[j].id # todoIds[i]

\* The updates the facade is called with.
FacadePatches ==
  {[NoPatch EXCEPT !.has = {"completed"}, !.completed = TRUE],
   [NoPatch EXCEPT !.has = {"title"}, !.title = <<" ">>]}
  \cup {[NoPatch EXCEPT !.has = {"date"}, !.date = [kind |-> "Date", y |-> dt.y, mo |-> dt.mo, d |-> dt.d]] :
          dt \in Dates}

\* The ids of the todos of a collection.
IdsIn(c) == {getAllTodos(c)[j].id : j \in 1..Len(getAllTodos(c))}

\* The collection the most recent successful setValue was given.
Latest == IF Len(queued) > 0 THEN queued[1] ELSE storedValue

\* The end of a mutating call: c is what the call computed from todos, the
\* error it threw or the collection it hands to setTodos.  The promise is
\* rejected when the body threw and fulfilled otherwise.  A call that threw
\* before setTodos makes no write, so only setItemThrows = FALSE stands for it.
FacadeCall(call, todoIds, valid, c, setItemThrows) ==
  /\ res = NoRes
  /\ IF c.err # ""
     THEN /\ ~setItemThrows
          /\ res' = [call |-> call, ids |-> todoIds, valid |-> valid, ok |-> FALSE, cause |-> c.err,
                     thrown |-> Rethrown(call, c.err), wrote |-> "none"]
          /\ UNCHANGED <<storedValue, queued, blob>>
     ELSE LET sv == setValue(c.out, setItemThrows)
          IN /\ blob' = sv.blob
             /\ queued' = sv.queued
             /\ res' = [call |-> call, ids |-> todoIds, valid |-> valid, ok |-> TRUE, cause |-> "",
                        thrown |-> "", wrote |-> IF sv.ret THEN "ok" ELSE "failed"]
             /\ UNCHANGED storedValue

FacadeInit ==
  /\ blob = NoItem
  /\ storedValue = InitialStoredValue(NoItem, <<>>)
  /\ queued = <<>>
  /\ res = NoRes
  /\ nextId = 0

AddTodo ==
  /\ nextId < NumIds
  /\ \E title \in Titles, date \in Dates, setItemThrows \in BOOLEAN :
       LET id == generateTodoId(nextId + 1)
       IN /\ FacadeCall("add", <<id>>, TRUE, addTodo(storedValue, Boxed("string", title), <<>>, date, id, now),
                        setItemThrows)
          /\ nextId' = IF Len(Trim(title)) = 0 THEN nextId ELSE nextId + 1
  /\ UNCHANGED <<now, engineVars, probe, calendarVars, tabVars>>

UpdateTodoById ==
  /\ \E todoId \in Ids, updates \in FacadePatches, setItemThrows \in BOOLEAN :
       FacadeCall("update", <<todoId>>, PatchValid(updates), updateTodoById(storedValue, todoId, updates, now),
                  setItemThrows)
  /\ UNCHANGED <<now, nextId, engineVars, probe, calendarVars, tabVars>>

DeleteTodo ==
  /\ \E todoId \in Ids, setItemThrows \in BOOLEAN :
       FacadeCall("delete", <<todoId>>, TRUE, deleteTodo(storedValue, todoId), setItemThrows)
  /\ UNCHANGED <<now, nextId, engineVars, probe, calendarVars, tabVars>>

ToggleTodoComplete ==
  /\ \E todoId \in Ids, setItemThrows \in BOOLEAN :
       FacadeCall("toggle", <<todoId>>, TRUE, toggleTodoCompleteById(storedValue, todoId, now),
                  setItemThrows)
  /\ UNCHANGED <<now, nextId, engineVars, probe, calendarVars, tabVars>>

ClearAllTodos ==
  /\ \E setItemThrows \in BOOLEAN :
       FacadeCall("clearAll", <<>>, TRUE, [err |-> "", out |-> <<>>], setItemThrows)
  /\ UNCHANGED <<now, nextId, engineVars, probe, calendarVars, tabVars>>

ClearTodosForDate ==
  /\ \E date \in Dates, setItemThrows \in BOOLEAN :
       FacadeCall("clearDate", <<>>, TRUE, clearTodosForDate(storedValue, formatDateKey(date)),
                  setItemThrows)
  /\ UNCHANGED <<now, nextId, engineVars, probe, calendarVars, tabVars>>

BulkUpdateTodos ==
  /\ \E todoIds \in BulkLists, updates \in FacadePatches, setItemThrows \in BOOLEAN :
       FacadeCall("bulkUpdate", todoIds, PatchValid(updates), bulkUpdateTodos(storedValue, todoIds, updates, now),
                  setItemThrows)
  /\ UNCHANGED <<now, nextId, engineVars, probe, calendarVars, tabVars>>

BulkDeleteTodos ==
  /\ \E todoIds \in BulkLists, setItemThrows \in BOOLEAN :
       FacadeCall("bulkDelete", todoIds, TRUE, bulkDeleteTodos(storedValue, todoIds), setItemThrows)
  /\ UNCHANGED <<now, nextId, engineVars, probe, calendarVars, tabVars>>

\* A read-only method is called: it runs on the todos of the last render,
\* which read afterwards as the heap it leaves has them; none of them
\* calls setTodos or localStorage.
Query ==
  /\ res = NoRes
  /\ \E q \in Queries :
       LET ld == Load(storedValue)
       IN storedValue' = Deep(RunQuery(ld.h, ld.ref, q), ld.ref)
  /\ res' = [NoRes EXCEPT !.call = "query"]
  /\ UNCHANGED <<queued, blob, nextId, now, engineVars, probe, calendarVars, tabVars>>

\* The caller takes the settled promise of the call it made.
Settle ==
  /\ res # NoRes
  /\ res' = NoRes
  /\ UNCHANGED <<storedValue, queued, blob, nextId, now, engineVars, probe, calendarVars, tabVars>>

\* React re-renders: the scheduled value becomes the state the next calls read.
Render ==
  /\ res = NoRes
  /\ Len(queued) > 0
  /\ storedValue' = queued[1]
  /\ queued' = <<>>
  /\ UNCHANGED <<res, blob, nextId, now, engineVars, probe, calendarVars, tabVars>>

(***************************************************************************)
(* Item specifications: validateTodo (ValidateSpec) and updateTodo          *)
(* (ItemSpec) called on their own, on any argument of the sets below.      *)
(***************************************************************************)
NoProbe == [fn |-> "none", arg |-> <<>>, patch |-> NoPatch, out |-> <<>>]

EmptyObject == [f \in {} |-> f]

\* The objects validateTodo is called with: each field absent, well-formed
\* or ill-formed.
FieldChoices(field, values) == {EmptyObject} \cup {field :> v : v \in values}

TodoObjects ==
  {id @@ title @@ completed @@ dateKey @@ description @@ createdAt @@ updatedAt :
     id \in FieldChoices("id", {Boxed("string", IdOf(1)), Boxed("string", "")}),
     title \in FieldChoices("title", {Boxed("string", <<"A">>), Boxed("string", <<" ">>)}),
     completed \in FieldChoices("completed", {Boxed("boolean", FALSE), Boxed("number", FALSE)}),
     dateKey \in FieldChoices("dateKey", {Boxed("string", "2024-01-05"), Boxed("string", "2024-1-5")}),
     description \in FieldChoices("description", {Boxed("string", <<>>), Boxed("number", <<>>)}),
     createdAt \in FieldChoices("createdAt", {Boxed("string", 0)}),
     updatedAt \in FieldChoices("updatedAt", {Boxed("string", 0)})}

Validate ==
  /\ \E todo \in TodoObjects :
       probe' = [NoProbe EXCEPT !.fn = "validate", !.arg = todo,
                                !.out = validateTodoObject(todo)]
  /\ UNCHANGED <<now, engineVars, facadeVars, calendarVars, tabVars>>

\* The todos updateTodo is called with, and the updates.
MaxClock == 2

ExistingTodos ==
  {[id |-> IdOf(1), title |-> <<"A">>, description |-> <<"A">>, completed |-> c,
    dateKey |-> "2024-01-05", createdAt |-> 0, updatedAt |-> 0] : c \in BOOLEAN}

\* A field the patch does not hold is undefined; NoPatch's value stands for it.
ItemPatches ==
  {[has |-> has,
    title |-> IF "title" \in has THEN title ELSE NoPatch.title,
    description |-> IF "description" \in has THEN <<" ", "B">> ELSE NoPatch.description,
    completed |-> IF "completed" \in has THEN TRUE ELSE NoPatch.completed,
    date |-> IF "date" \in has THEN [NoPatch.date EXCEPT !.kind = kind, !.d = 6]
             ELSE NoPatch.date] :
     has \in SUBSET {"title", "description", "completed", "date"},
     title \in {<<"B", " ">>, <<" ">>},
     kind \in {"Date", "NotDate", "InvalidDate"}}

\* updateTodo(existing, patch) on a todo of ExistingTodos or on the todo
\* the update before it returned; out.argAfter is existing read after the call.
UpdateItem ==
  /\ \E existing \in ExistingTodos \cup
                      (IF probe.fn = "update" /\ probe.out.err = ""
                       THEN {probe.out.todo} ELSE {}),
        patch \in ItemPatches, t \in 1..MaxClock :
       LET arg == NewTodo(EmptyHeap, existing)
           r == updateTodo(arg.h, arg.ref, patch, t)
       IN probe' = [fn |-> "update", arg |-> existing, patch |-> patch,
                    out |-> [err |-> r.err,
                             todo |-> IF r.err = "" THEN r.h.todos[r.ref] ELSE NoTodoRec,
                             argAfter |-> r.h.todos[arg.ref]]]
  /\ UNCHANGED <<now, engineVars, facadeVars, calendarVars, tabVars>>

(***************************************************************************)
(* Load specification: useLocalStorage constructed over a localStorage     *)
(* that holds nothing, a collection some instance wrote, a collection      *)
(* with ill-formed todos, or a text that is not JSON.                      *)
(***************************************************************************)
StoredTodos ==
  {[NoTodoRec EXCEPT !.id = id, !.title = title, !.dateKey = "2024-01-05"] :
     id \in {IdOf(1), ""}, title \in {<<"A">>, <<" ">>}}

\* The arrays a stored collection holds under a key.
StoredArrays == {<<>>} \cup {<<t>> : t \in StoredTodos}

\* The collections over the date keys of the model, in any key order.
StoredCollections ==
  UNION {{[i \in 1..n |-> [k |-> keys[i], v |-> arrays[i]]] :
            keys \in {ks \in [1..n -> Days] : \A i, j \in 1..n : i # j => ks[i] # ks[j]},
            arrays \in [1..n -> StoredArrays]} : n \in 0..NumDays}

Junk == [tok |-> "junk", key |-> "", todo |-> NoTodoRec]

StoredItems ==
  {NoItem}
  \cup {[present |-> TRUE, text |-> JSONStringify(c)] : c \in StoredCollections}
  \cup {[present |-> TRUE, text |-> Append(JSONStringify(c), Junk)] : c \in StoredCollections}

Construct ==
  /\ \E item \in StoredItems :
       probe' = [NoProbe EXCEPT !.fn = "construct", !.arg = item,
                                !.out = ReadStoredValue(item, <<>>)]
  /\ UNCHANGED <<now, engineVars, facadeVars, calendarVars, tabVars>>

(***************************************************************************)
(* Search specification: searchTodos called on its own, on the collections *)
(* and the terms of the sets below.                                        *)
(***************************************************************************)
SearchedTodos ==
  {[NoTodoRec EXCEPT !.id = IdOf(1), !.title = title, !.description = description] :
     title \in {<<"A">>, <<"B">>, <<"A", " ", "B">>}, description \in {<<>>, <<"b">>}}

\* Collections of one todo a day, over the date keys of the model.
SearchedCollections ==
  UNION {{[i \in 1..n |-> [k |-> keys[i], v |-> <<[todos[i] EXCEPT !.dateKey = keys[i]]>>]] :
            keys \in {ks \in [1..n -> Days] : \A i, j \in 1..n : i # j => ks[i] # ks[j]},
            todos \in [1..n -> SearchedTodos]} : n \in 0..NumDays}

SearchTerms ==
  {Boxed("string", v) : v \in {<<>>, <<"a">>, <<"A">>, <<"b">>, <<"B">>, <<" ">>, <<" ", "a">>,
                               <<"a", " ", "b">>, <<"A", " ", "B">>}}
  \cup {Boxed(type, <<>>) : type \in {"null", "undefined", "number"}}

\* The todos searchTodos returns for the collection value c, as a value.
SearchResults(c, searchTerm) ==
  LET ld == Load(c)
      r == searchTodos(ld.h, ld.ref, searchTerm)
  IN [j \in 1..Len(r.h.arrs[r.ref]) |-> r.h.todos[r.h.arrs[r.ref][j]]]

\* A behaviour of this specification is one call.
Search ==
  /\ probe = NoProbe
  /\ \E c \in SearchedCollections, searchTerm \in SearchTerms :
       probe' = [NoProbe EXCEPT !.fn = "search", !.arg = [c |-> c, term |-> searchTerm],
                                !.out = SearchResults(c, searchTerm)]
  /\ UNCHANGED <<now, engineVars, facadeVars, calendarVars, tabVars>>

(***************************************************************************)
(* Calendar specification: hooks/useCalendar.js and the 'add' case of      *)
(* handleTodoUpdate of components/Calendar, which calls the facade.        *)
(* Nothing schedules a state update in it, so it has no render step.       *)
(***************************************************************************)
NumYears == 2   \* calendar years the displayed month may be in

FirstYear == 2024
Years == FirstYear..(FirstYear + NumYears - 1)

IsLeapYear(y) == y % 4 = 0 /\ (y % 100 # 0 \/ y % 400 = 0)

\* The number of days of the month of index mo (0-based) of year y.
DaysInMonth(y, mo) ==
  IF mo = 1 THEN (IF IsLeapYear(y) THEN 29 ELSE 28)
  ELSE IF mo \in {3, 5, 8, 10} THEN 30 ELSE 31

\* date.setMonth(month) for month in -1..12: the month is brought into
\* 0..11 with a carry into the year, and a day of month the new month
\* does not have runs over into the month after it.
setMonth(date, month) ==
  LET y == IF month < 0 THEN date.y - 1 ELSE IF month > 11 THEN date.y + 1 ELSE date.y
      mo == (month + 12) % 12
  IN IF date.d <= DaysInMonth(y, mo) THEN [y |-> y, mo |-> mo, d |-> date.d]
     ELSE [y |-> IF mo = 11 THEN y + 1 ELSE y, mo |-> (mo + 1) % 12,
           d |-> date.d - DaysInMonth(y, mo)]

getPreviousMonth(date) == setMonth(date, date.mo - 1)

getNextMonth(date) == setMonth(date, date.mo + 1)

\* null, where a Date is expected.
NoDate == [y |-> 0, mo |-> 0, d |-> 0]

NoNav == [op |-> "none", from |-> NoDate]

\* operationStatus; todoData is the title of the form data of the call.
NoStatus == [loading |-> FALSE, error |-> "", success |-> FALSE, action |-> "",
             todoData |-> <<>>]

\* The dates new Date() may give when the calendar is mounted.
CalendarDates ==
  {dt \in [y : Years, mo : 0..11, d : {1, 15, 28, 29, 30, 31}] : dt.d <= DaysInMonth(dt.y, dt.mo)}

CalendarInit ==
  /\ currentDate = NoDate
  /\ selectedDate = NoDate
  /\ nav = NoNav
  /\ operationStatus = NoStatus

\* useCalendar(initialDate = new Date()): the calendar is mounted.
UseCalendar ==
  /\ currentDate = NoDate
  /\ \E initialDate \in CalendarDates : currentDate' = initialDate
  /\ UNCHANGED <<selectedDate, nav, operationStatus, now, engineVars, facadeVars, probe, tabVars>>

GoToPrevMonth ==
  /\ currentDate # NoDate
  /\ getPreviousMonth(currentDate).y \in Years
  /\ currentDate' = getPreviousMonth(currentDate)
  /\ nav' = [op |-> "prev", from |-> currentDate]
  /\ UNCHANGED <<selectedDate, operationStatus, now, engineVars, facadeVars, probe, tabVars>>

GoToNextMonth ==
  /\ currentDate # NoDate
  /\ getNextMonth(currentDate).y \in Years
  /\ currentDate' = getNextMonth(currentDate)
  /\ nav' = [op |-> "next", from |-> currentDate]
  /\ UNCHANGED <<selectedDate, operationStatus, now, engineVars, facadeVars, probe, tabVars>>

SelectDate ==
  /\ currentDate # NoDate
  /\ \E date \in Dates : selectedDate' = date
  /\ UNCHANGED <<currentDate, nav, operationStatus, now, engineVars, facadeVars, probe, tabVars>>

\* handleTodoUpdate('add', null, todoData): addTodo is called with one
\* argument, the object {...todoData, dateKey}, which it takes for its
\* title; description and date are left to their defaults '' and new Date().
HandleTodoUpdateAdd ==
  /\ currentDate # NoDate
  /\ nextId < NumIds
  /\ \E title \in Titles, today \in Dates, setItemThrows \in BOOLEAN :
       LET c == addTodo(storedValue, Boxed("object", title), <<>>, today,
                        generateTodoId(nextId + 1), now)
           sv == setValue(c.out, setItemThrows)
       IN IF selectedDate = NoDate
          THEN /\ operationStatus' = [NoStatus EXCEPT !.error = "No date selected for adding todo",
                                                      !.action = "add", !.todoData = title]
               /\ UNCHANGED <<queued, blob, nextId>>
          ELSE IF c.err # ""
          THEN /\ operationStatus' = [NoStatus EXCEPT !.error = Rethrown("add", c.err),
                                                      !.action = "add", !.todoData = title]
               /\ UNCHANGED <<queued, blob, nextId>>
          ELSE /\ operationStatus' = [NoStatus EXCEPT !.success = TRUE, !.action = "add",
                                                      !.todoData = title]
               /\ blob' = sv.blob
               /\ queued' = sv.queued
               /\ nextId' = nextId + 1
  /\ UNCHANGED <<currentDate, selectedDate, nav, storedValue, res, now, engineVars, probe, tabVars>>

(***************************************************************************)
(* Tabs specification: two tabs of the application over one localStorage.  *)
(* Each tab has its own useLocalStorage('todos') instance; a write of one  *)
(* tab that changes the stored text queues a storage event for the other,  *)
(* dispatched later.                                                       *)
(***************************************************************************)
MaxEvents == 2   \* storage events waiting for one tab

Tabs == {1, 2}

Other(i) == 3 - i

\* A storage event for the key 'todos'; newValue is null when not present.
StorageEvent(newValue) == [key |-> "todos", newValue |-> newValue]

\* handleStorageChange(e) in a tab: the state update it schedules.
handleStorageChange(tab, e) ==
  IF e.key = "todos" /\ e.newValue.present
  THEN IF IsJSON(e.newValue.text)
       THEN [tab EXCEPT !.queued = <<JSONParse(e.newValue.text)>>]
       ELSE tab
  ELSE tab

\* What a write of tab i leaves: the stored item, the update scheduled in
\* the tab and the event queued for the other tab when the item changed.
Wrote(i, item, scheduled) ==
  /\ blob' = item
  /\ tabs' = [tabs EXCEPT ![i].queued = scheduled]
  /\ events' = IF item # blob
               THEN [events EXCEPT ![Other(i)] = Append(@, StorageEvent(item))]
               ELSE events

TabsInit ==
  /\ tabs = [i \in Tabs |-> [storedValue |-> InitialStoredValue(NoItem, <<>>), queued |-> <<>>]]
  /\ events = [i \in Tabs |-> <<>>]

\* addTodo in tab i, on the todos of the tab's last render.
TabAddTodo ==
  /\ nextId < NumIds
  /\ \E i \in Tabs, date \in Dates, setItemThrows \in BOOLEAN :
       LET c == addTodo(tabs[i].storedValue, Boxed("string", <<"A">>), <<>>, date,
                        generateTodoId(nextId + 1), now)
           sv == setValue(c.out, setItemThrows)
       IN /\ Len(events[Other(i)]) < MaxEvents
          /\ c.err = ""
          /\ Wrote(i, sv.blob, IF sv.ret THEN sv.queued ELSE tabs[i].queued)
  /\ nextId' = nextId + 1
  /\ UNCHANGED <<storedValue, queued, res, now, engineVars, probe, calendarVars>>

\* clearAllTodos in tab i.
TabClearAllTodos ==
  /\ \E i \in Tabs, setItemThrows \in BOOLEAN :
       LET sv == setValue(<<>>, setItemThrows)
       IN /\ Len(events[Other(i)]) < MaxEvents
          /\ Wrote(i, sv.blob, IF sv.ret THEN sv.queued ELSE tabs[i].queued)
  /\ UNCHANGED <<storedValue, queued, res, nextId, now, engineVars, probe, calendarVars>>

\* clearAppData() in tab i: localStorage.removeItem('todos').
ClearAppData ==
  /\ \E i \in Tabs :
       /\ Len(events[Other(i)]) < MaxEvents
       /\ Wrote(i, NoItem, tabs[i].queued)
  /\ UNCHANGED <<storedValue, queued, res, nextId, now, engineVars, probe, calendarVars>>

\* The browser dispatches to tab i the oldest storage event waiting for it.
DispatchStorageEvent ==
  /\ \E i \in Tabs :
       /\ Len(events[i]) > 0
       /\ tabs' = [tabs EXCEPT ![i] = handleStorageChange(@, Head(events[i]))]
       /\ events' = [events EXCEPT ![i] = Tail(@)]
  /\ UNCHANGED <<facadeVars, now, engineVars, probe, calendarVars>>

\* React re-renders tab i: its scheduled value becomes its storedValue.
TabRender ==
  /\ \E i \in Tabs :
       /\ Len(tabs[i].queued) > 0
       /\ tabs' = [tabs EXCEPT ![i].storedValue = tabs[i].queued[1], ![i].queued = <<>>]
  /\ UNCHANGED <<events, facadeVars, now, engineVars, probe, calendarVars>>

(***************************************************************************)
(* Specifications                                                          *)
(***************************************************************************)
Init == EngineInit /\ FacadeInit /\ probe = NoProbe /\ CalendarInit /\ TabsInit

Next ==
  \/ Insert
  \/ ApplyUpdate
  \/ Remove
  \/ FilterByStatus
  \/ Sort
  \/ Stats

Spec == Init /\ [][Next]_vars

FacadeNext ==
  \/ AddTodo
  \/ UpdateTodoById
  \/ DeleteTodo
  \/ ToggleTodoComplete
  \/ ClearAllTodos
  \/ ClearTodosForDate
  \/ BulkUpdateTodos
  \/ BulkDeleteTodos
  \/ Query
  \/ Settle
  \/ Render

FacadeSpec == Init /\ [][FacadeNext]_vars

ValidateNext ==
  \/ Validate

ValidateSpec == Init /\ [][ValidateNext]_vars

ItemNext ==
  \/ UpdateItem

ItemSpec == Init /\ [][ItemNext]_vars

LoadNext ==
  \/ Construct

LoadSpec == Init /\ [][LoadNext]_vars

SearchNext ==
  \/ Search

SearchSpec == Init /\ [][SearchNext]_vars

CalendarNext ==
  \/ UseCalendar
  \/ GoToPrevMonth
  \/ GoToNextMonth
  \/ SelectDate
  \/ HandleTodoUpdateAdd

CalendarSpec == Init /\ [][CalendarNext]_vars

TabsNext ==
  \/ TabAddTodo
  \/ TabClearAllTodos
  \/ ClearAppData
  \/ DispatchStorageEvent
  \/ TabRender

TabsSpec == Init /\ [][TabsNext]_vars

(***************************************************************************)
(* Properties                                                              *)
(***************************************************************************)
\* How many todos of a sequence have the id.
Count(todos, id) == Cardinality({i \in 1..Len(todos) : todos[i].id = id})

\* The date keys of a collection.
KeysOf(c) == {c[i].k : i \in 1..Len(c)}

\* The key of the first bucket, in property order, that holds the id.
KeyOf(c, id) == c[Min({i \in 1..Len(c) : Count(c[i].v, id) > 0})].k

\* C1: starting from the empty collection, the collection never holds two
\* todos with the same id, in one bucket or in two different buckets.
C1_UniqueIds == \A id \in Ids : Count(getAllTodos(coll), id) <= 1

\* C2: an insert of a valid todo whose id some todo of the collection has,
\* under any date key, fails with DuplicateId and leaves the collection as
\* it was.
C2_DuplicateRejected ==
  [][(/\ last'.op = "insert"
      /\ validateTodo(last'.args.todo) = ""
      /\ last'.args.id \in IdsIn(coll))
     => (/\ last'.err = "DuplicateId"
         /\ coll' = coll
         /\ last'.inAfter = coll)]_vars

\* C3: no update is lost: an addTodo whose write succeeded keeps every todo
\* of the collection written by the calls before it, in the value that the
\* next render shows and in the persisted text, also when it is made before
\* the instance has rendered the result of the call before it.
C3_NoLostUpdate ==
  [][(res'.call = "add" /\ res'.wrote = "ok")
     => (/\ IdsIn(Latest) \subseteq IdsIn(Latest')
         /\ IdsIn(JSONParse(blob.text)) \subseteq IdsIn(JSONParse(blob'.text)))]_vars

\* C4: a mutating call whose storage write failed is reported to its caller
\* as a failure: its promise is not fulfilled.
C4_WriteFailureReported == res.wrote = "failed" => ~res.ok

\* C5: a mutating call whose storage write failed leaves the visible
\* collection, the scheduled state update and the persisted text as they
\* were before the call.
C5_FailedWriteChangesNothing ==
  [][res'.wrote = "failed"
     => (storedValue' = storedValue /\ queued' = queued /\ blob' = blob)]_vars

C5_Witness ==
  /\ res.wrote = "failed"
  /\ res.call = "delete"
  /\ Len(storedValue) > 0
  /\ blob.present

\* C6: no date key of the collection maps to an empty sequence, so a day
\* has todos exactly when its key is among the collection's keys.
C6_NoEmptyBucket ==
  /\ \A i \in 1..Len(coll) : Len(coll[i].v) > 0
  /\ \A d \in Days : (getTodosForDate(coll, d) = <<>>) <=> (d \notin KeysOf(coll))

C6_Witness ==
  /\ last.op \in {"update", "remove"}
  /\ last.err = ""
  /\ Len(last.inAfter) = 2
  /\ Len(coll) = 1

\* C7: after an update whose date patch changes the day of the todo, the
\* collection holds exactly one todo with that id, in the bucket of the new
\* date key, and none in the bucket it was in.
C7_MoveKeepsOneCopy ==
  (/\ last.op = "update"
   /\ last.err = ""
   /\ "date" \in last.args.patch.has
   /\ KeyOf(last.inAfter, last.args.id) # formatDateKey(last.args.patch.date))
  => (/\ Count(getAllTodos(coll), last.args.id) = 1
      /\ Count(getTodosForDate(coll, formatDateKey(last.args.patch.date)), last.args.id) = 1
      /\ Count(getTodosForDate(coll, KeyOf(last.inAfter, last.args.id)), last.args.id) = 0)

\* C8, as claimed: a bulk call given a list with an id that no todo has
\* fails with NotFound and changes neither the visible collection nor the
\* persisted text.
C8_BulkFailsNotFound ==
  [][(res'.call \in {"bulkUpdate", "bulkDelete"} /\ Absent(storedValue, res'.ids))
     => (/\ ~res'.ok
         /\ res'.cause = "NotFound"
         /\ storedValue' = storedValue /\ queued' = queued /\ blob' = blob)]_vars

\* C8, amended: a bulk call given a list with an id that no todo has fails
\* and changes neither the visible collection nor the persisted text; the
\* failure is NotFound when the patch is valid (and for bulkDelete), and
\* NotFound or InvalidArgument when the patch of bulkUpdate is invalid.
C8_BulkAllOrNothing ==
  [][(res'.call \in {"bulkUpdate", "bulkDelete"} /\ Absent(storedValue, res'.ids))
     => (/\ ~res'.ok
         /\ res'.cause \in {"NotFound", "InvalidArgument"}
         /\ res'.valid => res'.cause = "NotFound"
         /\ storedValue' = storedValue /\ queued' = queued /\ blob' = blob)]_vars

C8_Witness ==
  /\ res.call = "bulkUpdate"
  /\ Len(res.ids) = 2
  /\ res.ids[1] \in IdsIn(storedValue)
  /\ res.ids[2] = "missing"
  /\ res.valid
  /\ res.cause = "NotFound"

\* C9: an update or a remove naming an id that no todo of the collection
\* has fails with NotFound, and the collection it was given is unchanged.
C9_AbsentIdNotFound ==
  [][(last'.op \in {"update", "remove"} /\ last'.args.id \notin IdsIn(coll))
     => (/\ last'.err = "NotFound"
         /\ last'.inAfter = coll
         /\ coll' = coll)]_vars

C9_Witness ==
  /\ last.op = "remove"
  /\ last.err = "NotFound"
  /\ Len(coll) > 0

\* C10: no engine call changes the collection it is given: read through
\* the argument after the call, the collection, its buckets and its todos
\* are what they were before it.
C10_InputNotMutated == [][last'.inAfter = coll]_vars

C10_Witness ==
  /\ last.op = "sort"
  /\ last.err = ""
  /\ last.out # last.inAfter
  /\ last.inAfter = coll

\* C11: the error a rejected facade call hands to its caller is the error
\* the engine raised, neither caught nor replaced by another one.
C11_ErrorUnchanged == ~res.ok => res.thrown = res.cause

\* The fields of an object that break an invariant of a todo: the required
\* ones it lacks and the ones whose value is not well-formed.
Violated(todo) ==
  {f \in {"id", "title", "completed", "dateKey", "createdAt", "updatedAt"} : f \notin DOMAIN todo}
  \cup {f \in DOMAIN todo \cap {"id"} : todo[f].type # "string" \/ Len(todo[f].v) = 0}
  \cup {f \in DOMAIN todo \cap {"title"} : todo[f].type # "string" \/ Len(Trim(todo[f].v)) = 0}
  \cup {f \in DOMAIN todo \cap {"completed"} : todo[f].type # "boolean"}
  \cup {f \in DOMAIN todo \cap {"dateKey"} :
          todo[f].type # "string" \/ todo[f].v \notin DateKeyPattern}
  \cup {f \in DOMAIN todo \cap {"description"} : todo[f].type # "string"}

\* C12: the one Malformed failure validateTodo raises for an object names
\* every field the object lacks and every field whose value is invalid.
C12_AllViolationsNamed ==
  probe.fn = "validate"
  => (/\ (Violated(probe.arg) # {}) => probe.out.err = "Malformed"
      /\ Violated(probe.arg) \subseteq {probe.out.fields[i] : i \in 1..Len(probe.out.fields)})

\* C13: updateTodo given a date that is not a valid calendar date, a value
\* that is no Date or a Date that stands for no date, fails with
\* InvalidArgument, and the dateKey of a todo it returns always has the
\* form YYYY-MM-DD.
C13_InvalidDayRejected ==
  probe.fn = "update"
  => (/\ ("date" \in probe.patch.has /\ probe.patch.date.kind # "Date")
          => probe.out.err = "InvalidArgument"
      /\ probe.out.err = "" => probe.out.todo.dateKey \in DateKeyPattern)

\* C14: the todo updateTodo returns has the id and createdAt of the todo it
\* was given and the old value of every field the patch does not hold, and
\* the todo it was given is as it was before the call.
C14_UpdateFrame ==
  (probe.fn = "update" /\ probe.out.err = "")
  => (/\ probe.out.todo.id = probe.arg.id
      /\ probe.out.todo.createdAt = probe.arg.createdAt
      /\ probe.out.todo.createdAt = 0
      /\ "title" \notin probe.patch.has => probe.out.todo.title = probe.arg.title
      /\ "description" \notin probe.patch.has
           => probe.out.todo.description = probe.arg.description
      /\ "completed" \notin probe.patch.has
           => probe.out.todo.completed = probe.arg.completed
      /\ "date" \notin probe.patch.has => probe.out.todo.dateKey = probe.arg.dateKey
      /\ probe.out.argAfter = probe.arg)

C14_Witness ==
  /\ probe.fn = "update"
  /\ probe.out.err = ""
  /\ probe.patch.has = {"date"}
  /\ probe.out.todo.dateKey # probe.arg.dateKey
  /\ probe.out.todo.updatedAt # probe.arg.updatedAt
  /\ probe.arg.title = <<"B">>

\* C15: whatever calls were made and whichever of their writes failed, an
\* instance constructed from the persisted text starts with the collection
\* the existing instance shows (the one its latest successful call set), and
\* with the empty collection when nothing was persisted.
C15_ReloadRoundTrip ==
  /\ InitialStoredValue(blob, <<>>) = Latest
  /\ ~blob.present => InitialStoredValue(blob, <<>>) = <<>>

C15_Witness ==
  /\ res.wrote = "failed"
  /\ blob.present
  /\ Len(queued) = 0
  /\ Len(storedValue) = 2
  /\ Len(getAllTodos(storedValue)) = 2

\* C16: constructing the instance never fails, whatever localStorage holds.
C16_ConstructNeverFails == probe.fn = "construct" => probe.out.err = ""

C18_QueriesChangeNothing ==
  [][res'.call = "query"
     => (/\ storedValue' = storedValue
         /\ queued' = queued
         /\ blob' = blob
         /\ res'.wrote = "none")]_vars

\* A query was run on a collection that has a bucket of two todos, the
\* completed one first, which sortTodos by completed would reorder.
C18_Witness ==
  /\ res.call = "query"
  /\ blob.present
  /\ \E i \in 1..Len(storedValue) :
       /\ Len(storedValue[i].v) = 2
       /\ storedValue[i].v[1].completed
       /\ ~storedValue[i].v[2].completed

\* C19: the statistics of a collection have completed + pending = total,
\* total is the number of todos over all buckets, completionRate is
\* completed / total * 100, between 0 and 100, and 0 when total is 0.
C19_StatsCorrect ==
  last.op = "stats"
  => (/\ last.out.completed + last.out.pending = last.out.total
      /\ last.out.total = Len(getAllTodos(coll))
      /\ last.out.completed =
           Cardinality({j \in 1..Len(getAllTodos(coll)) : getAllTodos(coll)[j].completed})
      /\ last.out.completionRate.den > 0
      /\ last.out.total > 0 =>
           last.out.completionRate.num * last.out.total
             = last.out.completed * 100 * last.out.completionRate.den
      /\ last.out.total = 0 => last.out.completionRate.num = 0
      /\ 0 <= last.out.completionRate.num
      /\ last.out.completionRate.num <= 100 * last.out.completionRate.den)

C19_Witness ==
  /\ last.op = "stats"
  /\ last.out.total = 3
  /\ last.out.completed = 1
  /\ Len(coll) = 2

\* How many times a todo occurs in a sequence of todos.
Occurrences(todos, todo) == Cardinality({j \in 1..Len(todos) : todos[j] = todo})

\* C20: sorting by completed, ascending, returns a collection with the same
\* date keys, each bucket a permutation of the bucket it was, and in each
\* bucket every todo that is not completed before every completed one.
C20_SortByCompleted ==
  (last.op = "sort" /\ last.args.sortBy = "completed" /\ last.args.order = "asc")
  => (/\ last.err = ""
      /\ Len(last.out) = Len(coll)
      /\ \A i \in 1..Len(coll) :
           /\ last.out[i].k = coll[i].k
           /\ Len(last.out[i].v) = Len(coll[i].v)
           /\ \A j \in 1..Len(coll[i].v) :
                Occurrences(last.out[i].v, coll[i].v[j]) = Occurrences(coll[i].v, coll[i].v[j])
           /\ \A j, k \in 1..Len(last.out[i].v) :
                (last.out[i].v[j].completed /\ ~last.out[i].v[k].completed) => k < j)

C20_Witness ==
  /\ last.op = "sort"
  /\ last.args.sortBy = "completed"
  /\ last.args.order = "asc"
  /\ Len(coll) = 2
  /\ \E i \in 1..Len(coll) :
       /\ Len(coll[i].v) = 2
       /\ coll[i].v[1].completed
       /\ ~coll[i].v[2].completed
       /\ ~last.out[i].v[1].completed

\* C21: filterTodosByStatus returns, under each date key and in their old
\* order, exactly the todos whose completed is the flag, and no date key
\* whose filtered sequence is empty.
C21_FilterExact ==
  last.op = "filter"
  => (/\ last.err = ""
      /\ last.out =
           SelectSeq([i \in 1..Len(coll) |->
                        [k |-> coll[i].k,
                         v |-> SelectSeq(coll[i].v,
                                         LAMBDA t : t.completed = last.args.completed)]],
                     LAMBDA b : Len(b.v) > 0))

C21_Witness ==
  /\ last.op = "filter"
  /\ Len(coll) = 2
  /\ Len(last.out) = 1
  /\ Len(getAllTodos(coll)) = 3
  /\ Len(getAllTodos(last.out)) = 1

\* The same text in upper case and in lower case.
UpperCase(s) ==
  [i \in 1..Len(s) |-> CASE s[i] \in {"a", "A"} -> "A" [] s[i] \in {"b", "B"} -> "B" [] OTHER -> s[i]]

LowerCase(s) ==
  [i \in 1..Len(s) |-> CASE s[i] \in {"a", "A"} -> "a" [] s[i] \in {"b", "B"} -> "b" [] OTHER -> s[i]]

\* term occurs in s, letter case aside.
OccursIn(term, s) ==
  \E i \in 1..(Len(s) - Len(term) + 1) :
     \A j \in 1..Len(term) : UpperCase(s)[i + j - 1] = UpperCase(term)[j]

\* The todos of a collection, in order, that hold the term in their title
\* or their description.
Holding(c, term) ==
  SelectSeq(getAllTodos(c), LAMBDA t : OccursIn(term, t.title) \/ OccursIn(term, t.description))

C27_BlankTermFindsNothing ==
  (/\ probe.fn = "search"
   /\ \/ probe.arg.term.type # "string"
      \/ Len(Trim(probe.arg.term.v)) = 0)
  => probe.out = <<>>

\* C23: an insert of a valid todo whose id no todo has appends the todo as
\* the last element of the bucket of its date key, making the bucket when
\* there is none, keeps the todos already in that bucket in their order and
\* leaves every other bucket as it was.
C23_InsertAppends ==
  [][(last'.op = "insert" /\ last'.err = "" /\ last'.args.id \notin IdsIn(coll))
     => (/\ KeysOf(coll') = KeysOf(coll) \cup {last'.args.todo.dateKey}
         /\ Len(coll') = Cardinality(KeysOf(coll'))
         /\ getTodosForDate(coll', last'.args.todo.dateKey)
              = Append(getTodosForDate(coll, last'.args.todo.dateKey), last'.args.todo)
         /\ \A k \in KeysOf(coll) \ {last'.args.todo.dateKey} :
              getTodosForDate(coll', k) = getTodosForDate(coll, k))]_vars

C23_Witness ==
  /\ last.op = "insert"
  /\ last.err = ""
  /\ Len(coll) = 2
  /\ Len(last.inAfter) = 2
  /\ Len(getTodosForDate(coll, last.args.todo.dateKey)) = 2
  /\ getTodosForDate(coll, last.args.todo.dateKey)[2].id = last.args.id
  /\ getTodosForDate(coll, last.args.todo.dateKey)[1].id # last.args.id

\* The ids of a sequence of todos, in order.
IdsOf(todos) == [j \in 1..Len(todos) |-> todos[j].id]

\* C24: an update that does not change the day of the todo replaces it in
\* place: every bucket holds the same ids at the same indices as before.
C24_UpdateInPlace ==
  (last.op = "update" /\ last.err = "" /\ "date" \notin last.args.patch.has)
  => \A k \in KeysOf(last.inAfter) :
       IdsOf(getTodosForDate(coll, k)) = IdsOf(getTodosForDate(last.inAfter, k))

\* C25: after any sequence of inserts, updates and removes from the empty
\* collection, every todo in the bucket of a date key has that date key, and
\* every date key of the collection has the form YYYY-MM-DD.
C25_BucketsByDateKey ==
  \A i \in 1..Len(coll) :
    /\ MatchesDateKeyPattern(coll[i].k)
    /\ \A j \in 1..Len(coll[i].v) : coll[i].v[j].dateKey = coll[i].k

\* C26: an insert of a todo that validateTodo rejects fails with Malformed
\* and leaves the collection as it was, also when the id of the todo is
\* already in the bucket of its date key.
C26_MalformedFirst ==
  [][(last'.op = "insert" /\ validateTodo(last'.args.todo) # "")
     => (/\ last'.err = "Malformed"
         /\ coll' = coll
         /\ last'.inAfter = coll)]_vars

C26_Witness ==
  /\ last.op = "insert"
  /\ last.err = "Malformed"
  /\ Len(Trim(last.args.todo.title)) = 0
  /\ \E j \in 1..Len(getTodosForDate(coll, last.args.todo.dateKey)) :
        getTodosForDate(coll, last.args.todo.dateKey)[j].id = last.args.id

\* The month of a date, counted from year 0.
MonthIndex(date) == date.y * 12 + date.mo

\* C29: goToNextMonth displays the month after the one it left and
\* goToPrevMonth the month before it, whatever the day of the month, so
\* that goToPrevMonth right after goToNextMonth displays the month
\* goToNextMonth left.
C29_MonthNavigation ==
  [][/\ nav'.op = "next" => MonthIndex(currentDate') = MonthIndex(nav'.from) + 1
     /\ nav'.op = "prev" => MonthIndex(currentDate') = MonthIndex(nav'.from) - 1
     /\ (nav.op = "next" /\ nav'.op = "prev" /\ currentDate' # currentDate)
        => MonthIndex(currentDate') = MonthIndex(nav.from)]_vars

\* Some todo of the sequence has the title.
Titled(todos, title) == \E j \in 1..Len(todos) : todos[j].title = title

\* C30: after the calendar's 'add' with a date selected and a title that is
\* not blank, a todo with that title is in the bucket of the selected date,
\* in the collection about to be displayed and in the stored one.
C30_CalendarAddStores ==
  (/\ operationStatus.action = "add"
   /\ selectedDate # NoDate
   /\ Len(Trim(operationStatus.todoData)) > 0)
  => (/\ operationStatus.success
      /\ Titled(getTodosForDate(Latest, formatDateKey(selectedDate)),
                Trim(operationStatus.todoData))
      /\ Titled(getTodosForDate(InitialStoredValue(blob, <<>>), formatDateKey(selectedDate)),
                Trim(operationStatus.todoData)))

\* C28: when no storage event waits for a tab and no tab has an update to
\* render, each tab displays the collection localStorage holds.
C28_TabsConverge ==
  (\A i \in Tabs : events[i] = <<>> /\ tabs[i].queued = <<>>)
  => \A i \in Tabs : tabs[i].storedValue = InitialStoredValue(blob, <<>>)

====
